---- MODULE Spec2Model ----
(***************************************************************************)
(* Model of the retrieval core of ChatBot-RAG:                             *)
(*   database.py   DatabaseManager  (documents / chunks tables)            *)
(*   embeddings.py EmbeddingManager (get_embedding, cosine, L2)            *)
(*   retriever.py  Retriever        (cosine / L2 / hybrid retrieval,       *)
(*                                   build_context_from_chunks)            *)
(*                                                                         *)
(* Floats are modelled as fixed-point numbers with three decimals          *)
(* (1.0 is 1000).  The embedding universe below is chosen so that every    *)
(* norm, cosine and distance that occurs is exact in that representation.  *)
(* Python exceptions are modelled by outcome records [exc, val].           *)
(***************************************************************************)
EXTENDS Integers, Sequences, FiniteSets, TLC

VARIABLES
    documents,   \* rows of table documents, in rowid order: [doc_id, file_name]
    chunks,      \* rows of table chunks, in rowid order: [chunk_id, doc_id, text, embedding]
    docSeq,      \* sqlite_sequence entry of documents (AUTOINCREMENT high-water mark)
    chunkSeq,    \* sqlite_sequence entry of chunks
    dbCall,      \* the last DatabaseManager call and what it returned
    call,        \* the last Retriever retrieval call and what it returned
    ctx,         \* the last build_context_from_chunks call and what it returned
    issued,      \* history: the ids add_document has returned, in order
    batch,       \* the last get_embeddings_batch call and what it returned
    manager,     \* the DatabaseManager instance each session thread calls
    locks,       \* self.lock of each DatabaseManager: 0 when free, else the holder
    threads      \* where each session thread is in the call it is making

vars == <<documents, chunks, docSeq, chunkSeq, dbCall, call, ctx,
          issued, batch, manager, locks, threads>>
storeVars == <<documents, chunks, docSeq, chunkSeq>>
concVars == <<manager, locks, threads>>

(***************************************************************************)
(* Bounds of the model.                                                    *)
(***************************************************************************)
MaxChunks == 3      \* chunk rows ever inserted
MaxDocs == 2        \* document rows ever inserted
MaxTopK == 2        \* largest top_k passed to a retrieval
MaxSessionDocs == 1    \* documents uploaded by the concurrent sessions
MaxSessionChunks == 2  \* chunks uploaded by the concurrent sessions
MaxBatch == 3       \* longest list of texts handed to get_embeddings_batch
MaxCtxChunks == 3   \* longest scored-chunk list handed to build_context

(***************************************************************************)
(* Fixed-point arithmetic standing for Python / numpy float arithmetic.    *)
(***************************************************************************)
\* 1.0 with three decimals
ONE == 10 * 10 * 10
\* float('inf'): larger than every distance of the model
INF == 1000 * ONE

Mul(a, b) == (a * b) \div ONE
Div(a, b) == (a * ONE) \div b
Max(a, b) == IF a >= b THEN a ELSE b
Min(a, b) == IF a <= b THEN a ELSE b

RECURSIVE Bisect(_, _, _)
\* largest r in lo..hi with r*r <= n
Bisect(n, lo, hi) ==
    IF lo >= hi THEN lo
    ELSE LET mid == (lo + hi + 1) \div 2
         IN IF mid * mid <= n THEN Bisect(n, mid, hi) ELSE Bisect(n, lo, mid - 1)

\* square root of the fixed-point number x
Sqrt(x) == Bisect(x * ONE, 0, 40000)

RECURSIVE SumSeq(_)
SumSeq(s) == IF s = <<>> THEN 0 ELSE Head(s) + SumSeq(Tail(s))

(***************************************************************************)
(* EmbeddingManager: numpy vectors are sequences of fixed-point numbers.   *)
(***************************************************************************)
\* np.dot(vec1, vec2) of two 1-d arrays of equal length
Dot(vec1, vec2) == SumSeq([i \in 1..Len(vec1) |-> Mul(vec1[i], vec2[i])])

\* np.linalg.norm(vec)
Norm(vec) == Sqrt(SumSeq([i \in 1..Len(vec) |-> Mul(vec[i], vec[i])]))

\* vec1 - vec2 of two 1-d arrays of equal length
Sub(vec1, vec2) == [i \in 1..Len(vec1) |-> vec1[i] - vec2[i]]

\* numpy raises ValueError when the two 1-d arrays differ in length (np.dot:
\* shapes not aligned; vec1 - vec2: operands could not be broadcast; the
\* vectors of the model all have length >= 2, so nothing broadcasts)
ShapeError(vec1, vec2) == Len(vec1) # Len(vec2)

cosine_similarity(vec1, vec2) ==
    IF ShapeError(vec1, vec2) THEN [exc |-> TRUE, val |-> 0]
    ELSE IF Norm(vec1) = 0 \/ Norm(vec2) = 0 THEN [exc |-> FALSE, val |-> 0]
    ELSE [exc |-> FALSE, val |-> Div(Dot(vec1, vec2), Mul(Norm(vec1), Norm(vec2)))]

l2_distance(vec1, vec2) ==
    IF ShapeError(vec1, vec2) THEN [exc |-> TRUE, val |-> 0]
    ELSE [exc |-> FALSE, val |-> Norm(Sub(vec1, vec2))]

\* The embedder (Ollama) is external: a fixed function from texts to vectors.
\* Queries and chunk texts of the model, with the vector the embedder gives.
Embed(text) ==
    CASE text = "q"    -> <<600, 800>>
      [] text = "zero" -> <<0, 0>>
      [] text = "a"    -> <<600, 800>>
      [] text = "b"    -> <<0, 800>>
      [] text = "c"    -> <<600, -800>>
      [] text = "d"    -> <<1200, 1600>>
      [] text = "n"    -> <<-600, -800>>
      [] text = "e"    -> <<600, 0>>
      [] OTHER         -> <<0, 0>>

Queries == {"q", "zero"}
ChunkTexts == {"a", "b", "c", "d", "n"}

\* Length of the zero vector get_embeddings_batch stores for a chunk whose
\* embedding failed (4096 in the code, whatever the embedder's dimension is;
\* the embedder of the model has dimension 2).
FallbackDim == 3
zeros(n) == [i \in 1..n |-> 0]

\* get_embedding(text): the embedder's vector, or an exception when the call fails
get_embedding(text, embOk) ==
    IF embOk THEN [exc |-> FALSE, val |-> Embed(text)]
    ELSE [exc |-> TRUE, val |-> <<>>]

\* the output dimension of the embedding model Embed stands for
EmbedDim == Len(Embed("a"))

\* the dimensions an embedding model chosen with model_name can have: that of
\* Embed, and the 4096 the fallback vector of get_embeddings_batch is written for
Dims == {EmbedDim, FallbackDim}

\* self.client.embeddings(model=self.model_name, prompt=text)['embedding'] for
\* a model of dimension dim
client_embeddings(dim, prompt) == Embed(prompt) \o zeros(dim - EmbedDim)

\* the body of the loop of get_embeddings_batch for one text: the embedding, or
\* a zero vector when get_embedding raised
batch_item(text, ok, dim) ==
    LET outcome == IF ok THEN [exc |-> FALSE, val |-> client_embeddings(dim, text)]
                   ELSE [exc |-> TRUE, val |-> <<>>]
    IN IF outcome.exc THEN zeros(FallbackDim) ELSE outcome.val

\* get_embeddings_batch(texts): oks[i] tells whether the embedder answered for
\* texts[i]
get_embeddings_batch(texts, oks, dim) ==
    [i \in 1..Len(texts) |-> batch_item(texts[i], oks[i], dim)]

(***************************************************************************)
(* DatabaseManager.  An embedding is stored as the bytes of the array and  *)
(* read back as float32.  A blob is a sequence of 4-byte words: a float32  *)
(* element is one word, a float64 element is two, the low half of its      *)
(* mantissa and then its sign, exponent and the high half of its mantissa. *)
(***************************************************************************)
Dtypes == {"float32", "float64"}

\* embedding.tobytes(): the bytes of the array in its own element type
tobytes(embedding, dtype) ==
    IF dtype = "float32"
    THEN [i \in 1..Len(embedding) |-> <<"f32", embedding[i]>>]
    ELSE [i \in 1..(2 * Len(embedding)) |->
            <<IF i % 2 = 1 THEN "lo64" ELSE "hi64", embedding[(i + 1) \div 2]>>]

Abs(x) == IF x < 0 THEN -x ELSE x

\* the high word of the float64 v read as a float32, to three decimals: the
\* 11-bit exponent and the top 20 mantissa bits land on the 8-bit exponent
\* and 23-bit mantissa of a float32 (0.6 reads 1.775, 1.2 reads 1.9)
HighWord(v) ==
    LET a == Abs(v)
        m == IF a = 0 THEN 0
             ELSE IF a < ONE THEN 1750 + (2 * a - ONE) \div 8
             ELSE 1875 + (a - ONE) \div 8
    IN IF v < 0 THEN -m ELSE m

\* one 4-byte word read as a float32; the low mantissa word of a float64
\* reads as a number below 1e-7 in magnitude, 0.000 to three decimals
float32_of(word) ==
    CASE word[1] = "f32"  -> word[2]
      [] word[1] = "lo64" -> 0
      [] word[1] = "hi64" -> HighWord(word[2])

\* np.frombuffer(embedding_bytes, dtype=np.float32)
frombuffer(blob) == [i \in 1..Len(blob) |-> float32_of(blob[i])]

RECURSIVE SelectRows(_, _)
\* SELECT chunk_id, text, embedding FROM chunks [WHERE doc_id = ?], decoded
SelectRows(rows, docs) ==
    IF rows = <<>> THEN <<>>
    ELSE LET r == Head(rows)
         IN (IF r.doc_id \in docs
             THEN << <<r.chunk_id, r.text, frombuffer(r.embedding)>> >>
             ELSE <<>>) \o SelectRows(Tail(rows), docs)

AllDocIds == 1..(MaxDocs + 1)

get_all_chunks == SelectRows(chunks, {chunks[i].doc_id : i \in 1..Len(chunks)})

get_document_chunks(doc_id) == SelectRows(chunks, {doc_id})

\* SELECT ... FROM documents ORDER BY uploaded_at DESC (upload times grow with
\* the rowid, so this is the newest row first)
get_documents ==
    [i \in 1..Len(documents) |-> documents[Len(documents) + 1 - i]]

RECURSIVE DeleteFirstRow(_, _)
\* faulty variant: only the first matching row is deleted
DeleteFirstRow(rows, doc_id) ==
    IF rows = <<>> THEN <<>>
    ELSE IF Head(rows).doc_id = doc_id THEN Tail(rows)
         ELSE <<Head(rows)>> \o DeleteFirstRow(Tail(rows), doc_id)

RECURSIVE DeleteRows(_, _)
\* DELETE FROM <table> WHERE doc_id = ?
DeleteRows(rows, doc_id) ==
    IF rows = <<>> THEN <<>>
    ELSE (IF Head(rows).doc_id = doc_id THEN <<>> ELSE <<Head(rows)>>)
         \o DeleteRows(Tail(rows), doc_id)

\* get_all_chunks() as a retrieval sees it: the rows, or sqlite3's exception
read_all_chunks(dbOk) ==
    IF dbOk THEN [exc |-> FALSE, val |-> get_all_chunks]
    ELSE [exc |-> TRUE, val |-> <<>>]

(***************************************************************************)
(* Retriever.  A scored chunk is <<chunk_id, text, score>>.                *)
(***************************************************************************)
Raise == [exc |-> TRUE, val |-> <<>>]
Return(v) == [exc |-> FALSE, val |-> v]

\* faulty variant: no handler, the exception leaves the retrieval
except_nothing(outcome) == outcome

\* the handler "except Exception as e: print(...); return []" of each retrieval
except_Exception(outcome) == IF outcome.exc THEN Return(<<>>) ELSE outcome

\* Python's seq[:k]
Slice(seq, k) ==
    LET n == IF k >= 0 THEN Min(k, Len(seq)) ELSE Max(Len(seq) + k, 0)
    IN SubSeq(seq, 1, n)

\* sort key of list.sort(key=lambda x: x[2], reverse=...)
Key(x, reverse) == IF reverse THEN -x[3] ELSE x[3]

RECURSIVE Insert(_, _, _)
\* x put behind every element of the sorted s that does not come after it
Insert(s, x, reverse) ==
    IF s = <<>> THEN <<x>>
    ELSE IF Key(Head(s), reverse) <= Key(x, reverse)
         THEN <<Head(s)>> \o Insert(Tail(s), x, reverse)
         ELSE <<x>> \o s

RECURSIVE list_sort_ascending(_, _)
\* faulty variant: reverse=True forgotten, the sort is always ascending
list_sort_ascending(seq, reverse) ==
    IF seq = <<>> THEN <<>>
    ELSE Insert(list_sort_ascending(SubSeq(seq, 1, Len(seq) - 1), reverse),
                seq[Len(seq)], FALSE)

\* faulty variant: a descending sort done as an ascending sort read backwards,
\* which turns the order of equal scores around
list_sort_backwards(seq, reverse) ==
    LET s == list_sort_ascending(seq, reverse)
    IN IF reverse THEN [i \in 1..Len(s) |-> s[Len(s) + 1 - i]] ELSE s

RECURSIVE list_sort(_, _)
\* list.sort(key=lambda x: x[2], reverse=reverse): stable, also when reversed
list_sort(seq, reverse) ==
    IF seq = <<>> THEN <<>>
    ELSE Insert(list_sort(SubSeq(seq, 1, Len(seq) - 1), reverse),
                seq[Len(seq)], reverse)

RECURSIVE Filter(_, _, _)
Filter(seq, bound, atLeast) ==
    IF seq = <<>> THEN <<>>
    ELSE (IF (atLeast /\ Head(seq)[3] >= bound) \/ (~atLeast /\ Head(seq)[3] <= bound)
          THEN <<Head(seq)>> ELSE <<>>) \o Filter(Tail(seq), bound, atLeast)

\* faulty variant: the threshold itself is excluded (score > similarity_threshold)
filter_similarity_strict(similarities, similarity_threshold) ==
    Filter(similarities, similarity_threshold + 1, TRUE)

\* [... for ... in similarities if score >= similarity_threshold]
filter_similarity(similarities, similarity_threshold) ==
    Filter(similarities, similarity_threshold, TRUE)

\* faulty variant: the comparison of the cosine filter copied (distance >= max_distance)
filter_distance_flipped(distances, max_distance) ==
    Filter(distances, max_distance, TRUE)

\* [... for ... in distances if distance <= max_distance]
filter_distance(distances, max_distance) ==
    Filter(distances, max_distance, FALSE)

\* the try block of retrieve_similar_chunks
similar_try(query, top_k, similarity_threshold, embOk, dbOk) ==
    LET query_embedding == get_embedding(query, embOk)
        rows == read_all_chunks(dbOk)
    IN IF query_embedding.exc \/ rows.exc THEN Raise
       ELSE IF rows.val = <<>> THEN Return(<<>>)
       ELSE LET sims == [i \in 1..Len(rows.val) |->
                            cosine_similarity(query_embedding.val, rows.val[i][3])]
            IN IF \E i \in 1..Len(sims) : sims[i].exc THEN Raise
               ELSE LET similarities == [i \in 1..Len(sims) |->
                               <<rows.val[i][1], rows.val[i][2], sims[i].val>>]
                        sorted == list_sort(similarities, TRUE)
                    IN Return(Slice(filter_similarity(sorted, similarity_threshold), top_k))

retrieve_similar_chunks(query, top_k, similarity_threshold, embOk, dbOk) ==
    except_Exception(similar_try(query, top_k, similarity_threshold, embOk, dbOk))

\* the try block of retrieve_by_l2_distance
l2_try(query, top_k, max_distance, embOk, dbOk) ==
    LET query_embedding == get_embedding(query, embOk)
        rows == read_all_chunks(dbOk)
    IN IF query_embedding.exc \/ rows.exc THEN Raise
       ELSE IF rows.val = <<>> THEN Return(<<>>)
       ELSE LET ds == [i \in 1..Len(rows.val) |->
                          l2_distance(query_embedding.val, rows.val[i][3])]
            IN IF \E i \in 1..Len(ds) : ds[i].exc THEN Raise
               ELSE LET distances == [i \in 1..Len(ds) |->
                               <<rows.val[i][1], rows.val[i][2], ds[i].val>>]
                        sorted == list_sort(distances, FALSE)
                    IN Return(Slice(filter_distance(sorted, max_distance), top_k))

retrieve_by_l2_distance(query, top_k, max_distance, embOk, dbOk) ==
    except_Exception(l2_try(query, top_k, max_distance, embOk, dbOk))

\* the iteration orders a Python set of chunk ids may have
Orders(ids) ==
    {f \in [1..Cardinality(ids) -> ids] :
        \A i, j \in 1..Cardinality(ids) : f[i] = f[j] => i = j}

Ids(results) == {results[i][1] : i \in 1..Len(results)}

\* dict.get(chunk_id, default) of {chunk_id: score for chunk_id, _, score in results}
DictGet(results, chunk_id, default) ==
    IF chunk_id \in Ids(results)
    THEN (CHOOSE r \in {results[i] : i \in 1..Len(results)} : r[1] = chunk_id)[3]
    ELSE default

\* next((text for cid, text, _ in results if cid == chunk_id), default)
NextText(results, chunk_id, default) ==
    IF chunk_id \in Ids(results)
    THEN results[CHOOSE i \in 1..Len(results) :
                    /\ results[i][1] = chunk_id
                    /\ \A j \in 1..(i - 1) : results[j][1] # chunk_id][2]
    ELSE default

\* faulty variant: the max(0, ...) is missing
l2_score_unclamped(distance) == ONE - Div(distance, 2 * ONE)

\* max(0, 1 - (l2_distance / 2.0))
l2_score(distance) == Max(0, ONE - Div(distance, 2 * ONE))

\* faulty variant: line 179, the sort of combined_scores, is missing
hybrid_combine_unsorted(cosine_results, l2_results, top_k, cosine_weight, l2_weight, order) ==
    LET combined_scores == [i \in 1..Len(order) |->
            LET chunk_id == order[i]
                cosine_score == DictGet(cosine_results, chunk_id, 0)
                distance == DictGet(l2_results, chunk_id, INF)
                combined_score == Mul(cosine_weight, cosine_score)
                                    + Mul(l2_weight, l2_score(distance))
                text == NextText(cosine_results, chunk_id,
                                 NextText(l2_results, chunk_id, ""))
            IN <<chunk_id, text, combined_score>>]
    IN Return(Slice(combined_scores, top_k))

\* lines 153-180 of hybrid_search, from the two result lists; order is the
\* iteration order of the set all_chunk_ids
hybrid_combine(cosine_results, l2_results, top_k, cosine_weight, l2_weight, order) ==
    LET combined_scores == [i \in 1..Len(order) |->
            LET chunk_id == order[i]
                cosine_score == DictGet(cosine_results, chunk_id, 0)
                distance == DictGet(l2_results, chunk_id, INF)
                combined_score == Mul(cosine_weight, cosine_score)
                                    + Mul(l2_weight, l2_score(distance))
                text == NextText(cosine_results, chunk_id,
                                 NextText(l2_results, chunk_id, ""))
            IN <<chunk_id, text, combined_score>>]
    IN Return(Slice(list_sort(combined_scores, TRUE), top_k))

\* all_chunk_ids = set(cosine_dict.keys()) | set(l2_dict.keys())
all_chunk_ids(cosine_results, l2_results) == Ids(cosine_results) \cup Ids(l2_results)

\* the first inner call of hybrid_search
hybrid_cosine_results(query, top_k, embOk, dbOk) ==
    retrieve_similar_chunks(query, top_k * 2, 0, embOk, dbOk).val

\* the second inner call of hybrid_search
hybrid_l2_results(query, top_k, embOk, dbOk) ==
    retrieve_by_l2_distance(query, top_k * 2, INF, embOk, dbOk).val

\* hybrid_search once its two inner calls have returned
hybrid_search(cosine_results, l2_results, top_k, cosine_weight, l2_weight, order) ==
    except_Exception(hybrid_combine(cosine_results, l2_results, top_k,
                                    cosine_weight, l2_weight, order))

(***************************************************************************)
(* Session threads.  Streamlit runs the script of every browser session in *)
(* a thread of one process; each session makes its own DatabaseManager.    *)
(***************************************************************************)
Threads == {1, 2}
Managers == {1, 2}

\* pc: where the thread is ("idle", "uploading" between the calls of an
\* upload, "waiting" for the lock, the name of a DatabaseManager method while
\* it holds the lock, "failed" in the except branch of its script, ...);
\* op: the method it has called; doc_id: the doc_id argument, or the document
\* of its upload; todo: the chunks of the uploaded file not stored yet;
\* txn: the uncommitted tables of its connection; pre: the tables when its
\* transaction began; seen: what its read returned, or which get_all_chunks
\* calls of its hybrid_search raised; rows1, rows2: what the two
\* get_all_chunks calls of its hybrid_search returned
Idle == [pc |-> "idle", op |-> "none", doc_id |-> 0, todo |-> 0, txn |-> <<>>,
         pre |-> <<>>, seen |-> <<>>, rows1 |-> <<>>, rows2 |-> <<>>]

\* no session thread is in a call
NoThreads ==
    /\ manager = [t \in Threads |-> 1]
    /\ locks = [m \in Managers |-> 0]
    /\ threads = [t \in Threads |-> Idle]

(***************************************************************************)
(* Inputs of the retrieval calls.                                          *)
(***************************************************************************)
TopKs == (-1)..MaxTopK
Thresholds == {0, 500, 800}
MaxDistances == {0, 1000, INF}
Weights == {<<1000, 0>>, <<700, 300>>}
NoWeights == <<0, 0>>

\* where a call of the embedder or of the store fails, if anywhere
Fail(embOk, dbOk) == IF ~embOk THEN "embed" ELSE IF ~dbOk THEN "store" ELSE "none"
Failures == {<<TRUE, TRUE>>, <<FALSE, TRUE>>, <<TRUE, FALSE>>}

NoCall == [op |-> "none", query |-> "", top_k |-> 0, thr |-> 0, w |-> NoWeights,
           fail |-> <<"none", "none">>, raised |-> FALSE, result |-> <<>>]
NoDbCall == [op |-> "none", doc_id |-> 0, arg |-> <<>>, existed |-> FALSE,
             stored |-> FALSE, raised |-> FALSE, ret |-> <<>>]
NoCtx == [done |-> FALSE, chunks |-> <<>>, max_context_length |-> 0, ret |-> ""]
NoBatch == [done |-> FALSE, dim |-> 0, texts |-> <<>>, oks |-> <<>>, ret |-> <<>>]

\* the rows a document upload stores: a chunk text with the embedder's vector,
\* or with the fallback zero vector when the embedder failed for it
Row(chunk_id, doc_id, text, embedded) ==
    [chunk_id |-> chunk_id, doc_id |-> doc_id, text |-> text,
     embedding |-> tobytes(IF embedded THEN Embed(text) ELSE zeros(FallbackDim),
                           "float32")]

ChunkInputs == (ChunkTexts \X {TRUE}) \cup {<<"a", FALSE>>}

(***************************************************************************)
(* Retrieval over a stored upload: the store holds one document whose      *)
(* chunks were uploaded, and one query is answered from it.  A retrieval   *)
(* only reads the store, so a second query would start from the same store *)
(* and reach no state that a first query does not reach.                   *)
(***************************************************************************)
InitRetrieve ==
    /\ \E n \in 0..MaxChunks : \E in \in [1..n -> ChunkInputs] :
          /\ chunks = [i \in 1..n |-> Row(i, 1, in[i][1], in[i][2])]
          /\ chunkSeq = n
          /\ documents = IF n = 0 THEN <<>> ELSE <<[doc_id |-> 1, file_name |-> "f"]>>
          /\ docSeq = IF n = 0 THEN 0 ELSE 1
    /\ dbCall = NoDbCall
    /\ call = NoCall
    /\ ctx = NoCtx
    /\ issued = [i \in 1..docSeq |-> i]
    /\ batch = NoBatch
    /\ NoThreads

RetrieveSimilarChunks ==
    /\ call.op = "none"
    /\ \E query \in Queries, top_k \in TopKs, thr \in Thresholds, f \in Failures :
        LET out == retrieve_similar_chunks(query, top_k, thr, f[1], f[2])
        IN /\ call' = [op |-> "similar", query |-> query, top_k |-> top_k, thr |-> thr,
                       w |-> NoWeights, fail |-> <<Fail(f[1], f[2]), "none">>,
                       raised |-> out.exc, result |-> out.val]
           /\ UNCHANGED <<storeVars, dbCall, ctx, issued, batch, concVars>>

RetrieveByL2Distance ==
    /\ call.op = "none"
    /\ \E query \in Queries, top_k \in TopKs, thr \in MaxDistances, f \in Failures :
        LET out == retrieve_by_l2_distance(query, top_k, thr, f[1], f[2])
        IN /\ call' = [op |-> "l2", query |-> query, top_k |-> top_k, thr |-> thr,
                       w |-> NoWeights, fail |-> <<Fail(f[1], f[2]), "none">>,
                       raised |-> out.exc, result |-> out.val]
           /\ UNCHANGED <<storeVars, dbCall, ctx, issued, batch, concVars>>

HybridSearch ==
    /\ call.op = "none"
    /\ \E query \in Queries, top_k \in TopKs, f1 \in Failures, f2 \in Failures :
       \E cosine_results \in {hybrid_cosine_results(query, top_k, f1[1], f1[2])},
          l2_results \in {hybrid_l2_results(query, top_k, f2[1], f2[2])} :
       \E w \in Weights, order \in Orders(all_chunk_ids(cosine_results, l2_results)) :
        LET out == hybrid_search(cosine_results, l2_results, top_k, w[1], w[2], order)
        IN /\ call' = [op |-> "hybrid", query |-> query, top_k |-> top_k, thr |-> 0,
                       w |-> w, fail |-> <<Fail(f1[1], f1[2]), Fail(f2[1], f2[2])>>,
                       raised |-> out.exc, result |-> out.val]
           /\ UNCHANGED <<storeVars, dbCall, ctx, issued, batch, concVars>>

\* the store of the hybrid specification: one uploaded document whose chunks
\* all embedded, with three different non-negative and one negative cosine
\* score against the query "q", and all scores tied against the query "zero"
HybridTexts == {"a", "b", "c", "e"}

InitHybrid ==
    /\ \E n \in 0..MaxChunks : \E in \in [1..n -> HybridTexts] :
          /\ chunks = [i \in 1..n |-> Row(i, 1, in[i], TRUE)]
          /\ chunkSeq = n
          /\ documents = IF n = 0 THEN <<>> ELSE <<[doc_id |-> 1, file_name |-> "f"]>>
          /\ docSeq = IF n = 0 THEN 0 ELSE 1
    /\ dbCall = NoDbCall
    /\ call = NoCall
    /\ ctx = NoCtx
    /\ issued = [i \in 1..docSeq |-> i]
    /\ batch = NoBatch
    /\ NoThreads

NextRetrieve == RetrieveSimilarChunks \/ RetrieveByL2Distance

SpecRetrieve == InitRetrieve /\ [][NextRetrieve]_vars

NextHybrid == RetrieveSimilarChunks \/ RetrieveByL2Distance \/ HybridSearch

SpecHybrid == InitHybrid /\ [][NextHybrid]_vars

(***************************************************************************)
(* The store under a sequence of DatabaseManager calls.  dbCall records    *)
(* the last call: its doc_id argument, whether that document existed when  *)
(* it was called, whether a chunk row was stored, whether it raised, and   *)
(* what it returned.                                                       *)
(***************************************************************************)
InitStore ==
    /\ documents = <<>>
    /\ chunks = <<>>
    /\ docSeq = 0
    /\ chunkSeq = 0
    /\ dbCall = NoDbCall
    /\ call = NoCall
    /\ ctx = NoCtx
    /\ issued = [i \in 1..docSeq |-> i]
    /\ batch = NoBatch
    /\ NoThreads

DocIds == {documents[i].doc_id : i \in 1..Len(documents)}

StoreInputs == {<<"a", TRUE>>, <<"a", FALSE>>}

\* faulty variant: doc_id INTEGER PRIMARY KEY without AUTOINCREMENT, where
\* SQLite gives the largest rowid in the table plus one
lastrowid_max(docs, seq) ==
    IF docs = <<>> THEN 1 ELSE docs[Len(docs)].doc_id + 1

\* cursor.lastrowid of an INSERT into a table whose key is AUTOINCREMENT: one
\* above the sqlite_sequence entry, that is above every id ever given
lastrowid(docs, seq) == seq + 1

\* INSERT INTO documents; return doc_id
add_document(file_name) ==
    \E doc_id \in {lastrowid(documents, docSeq)} :
        /\ documents' = Append(documents, [doc_id |-> doc_id, file_name |-> file_name])
        /\ docSeq' = Max(docSeq, doc_id)
        /\ issued' = Append(issued, doc_id)
        /\ UNCHANGED <<chunks, chunkSeq>>

AddDocument ==
    /\ Len(issued) < MaxDocs
    /\ add_document("f")
    /\ dbCall' = [NoDbCall EXCEPT !.op = "add_document",
                                  !.ret = <<issued'[Len(issued')]>>]
    /\ UNCHANGED <<call, ctx, batch, concVars>>

\* INSERT INTO chunks: the connection never turns on PRAGMA foreign_keys, so
\* SQLite does not check the FOREIGN KEY clause of the table and the row is
\* stored whatever doc_id is
add_chunk(doc_id, text, embedding, dtype) ==
    /\ chunks' = Append(chunks, [chunk_id |-> chunkSeq + 1, doc_id |-> doc_id,
                                 text |-> text,
                                 embedding |-> tobytes(embedding, dtype)])
    /\ chunkSeq' = chunkSeq + 1
    /\ UNCHANGED <<documents, docSeq>>

AddChunk ==
    /\ chunkSeq < MaxChunks
    /\ \E doc_id \in AllDocIds, in \in StoreInputs :
        /\ add_chunk(doc_id, in[1],
                     IF in[2] THEN Embed(in[1]) ELSE zeros(FallbackDim), "float32")
        /\ dbCall' = [NoDbCall EXCEPT !.op = "add_chunk", !.doc_id = doc_id,
                                      !.existed = (doc_id \in DocIds),
                                      !.stored = (chunks' # chunks)]
    /\ UNCHANGED <<call, ctx, issued, batch, concVars>>

\* DELETE FROM chunks WHERE doc_id = ?; DELETE FROM documents WHERE doc_id = ?
delete_document(doc_id) ==
    /\ chunks' = DeleteRows(chunks, doc_id)
    /\ documents' = DeleteRows(documents, doc_id)
    /\ UNCHANGED <<docSeq, chunkSeq>>

DeleteDocument ==
    /\ \E doc_id \in AllDocIds :
        /\ delete_document(doc_id)
        /\ dbCall' = [NoDbCall EXCEPT !.op = "delete_document", !.doc_id = doc_id,
                                      !.existed = (doc_id \in DocIds)]
    /\ UNCHANGED <<call, ctx, issued, batch, concVars>>

GetAllChunks ==
    /\ dbCall' = [NoDbCall EXCEPT !.op = "get_all_chunks", !.ret = get_all_chunks]
    /\ UNCHANGED <<storeVars, call, ctx, issued, batch, concVars>>

GetDocumentChunks ==
    /\ \E doc_id \in AllDocIds :
        dbCall' = [NoDbCall EXCEPT !.op = "get_document_chunks", !.doc_id = doc_id,
                                   !.existed = (doc_id \in DocIds),
                                   !.ret = get_document_chunks(doc_id)]
    /\ UNCHANGED <<storeVars, call, ctx, issued, batch, concVars>>

GetDocuments ==
    /\ dbCall' = [NoDbCall EXCEPT !.op = "get_documents", !.ret = get_documents]
    /\ UNCHANGED <<storeVars, call, ctx, issued, batch, concVars>>

NextStore ==
    \/ AddDocument
    \/ AddChunk
    \/ DeleteDocument
    \/ GetAllChunks
    \/ GetDocumentChunks
    \/ GetDocuments

SpecStore == InitStore /\ [][NextStore]_vars

(***************************************************************************)
(* build_context_from_chunks on a list of scored chunks.                   *)
(***************************************************************************)
Pad3(n) == IF n < 10 THEN "00" \o ToString(n)
           ELSE IF n < 100 THEN "0" \o ToString(n) ELSE ToString(n)

\* f"{score:.3f}"
FormatScore(score) ==
    (IF score < 0 THEN "-" ELSE "")
        \o ToString(Abs(score) \div ONE) \o "." \o Pad3(Abs(score) % ONE)

\* f"[Score: {score:.3f}] {text}"
chunk_with_score(text, score) == "[Score: " \o FormatScore(score) \o "] " \o text

RECURSIVE context_parts(_, _, _)
\* the for loop of build_context_from_chunks, from current_length on
context_parts(scored, current_length, max_context_length) ==
    IF scored = <<>> THEN <<>>
    ELSE LET part == chunk_with_score(Head(scored)[2], Head(scored)[3])
         IN IF current_length + Len(part) > max_context_length THEN <<>>
            ELSE <<part>> \o context_parts(Tail(scored), current_length + Len(part),
                                           max_context_length)

RECURSIVE Join(_, _)
\* sep.join(parts)
Join(sep, parts) ==
    IF parts = <<>> THEN ""
    ELSE IF Len(parts) = 1 THEN parts[1]
    ELSE parts[1] \o sep \o Join(sep, Tail(parts))

build_context_from_chunks(scored, max_context_length) ==
    IF scored = <<>> THEN ""
    ELSE Join("\n\n", context_parts(scored, 0, max_context_length))

CtxTexts == {"x", "hello"}
CtxScores == {1000, -280}
CtxLengths == {0, 16, 32, 34, 40}

InitContext ==
    /\ documents = <<>>
    /\ chunks = <<>>
    /\ docSeq = 0
    /\ chunkSeq = 0
    /\ dbCall = NoDbCall
    /\ call = NoCall
    /\ issued = <<>>
    /\ batch = NoBatch
    /\ NoThreads
    /\ \E n \in 0..MaxCtxChunks : \E in \in [1..n -> CtxTexts \X CtxScores] :
       \E max_context_length \in CtxLengths :
          ctx = [done |-> FALSE,
                 chunks |-> [i \in 1..n |-> <<i, in[i][1], in[i][2]>>],
                 max_context_length |-> max_context_length, ret |-> ""]

BuildContext ==
    /\ ~ctx.done
    /\ ctx' = [ctx EXCEPT !.done = TRUE,
                          !.ret = build_context_from_chunks(ctx.chunks, ctx.max_context_length)]
    /\ UNCHANGED <<storeVars, dbCall, call, issued, batch, concVars>>

NextContext == BuildContext

SpecContext == InitContext /\ [][NextContext]_vars

(***************************************************************************)
(* Concurrent sessions.  Every DatabaseManager method runs under the lock  *)
(* of its own instance and on a connection of its own.  sqlite3 opens a    *)
(* transaction before the first INSERT or DELETE of a connection; what it  *)
(* writes is seen by other connections once it commits, and SQLite lets    *)
(* one connection write at a time (a second writer waits in its busy       *)
(* handler).  A SELECT is one step.  A unit of work may raise (sqlite3      *)
(* errors): the exception leaves the "with self.lock" block, the           *)
(* connection is dropped and its transaction rolled back.                  *)
(***************************************************************************)
SessionDocIds == 1..MaxSessionDocs
ReadOps == {"get_all_chunks", "get_document_chunks", "get_documents"}
StoreOps == {"add_document", "add_chunk", "delete_document", "hybrid_cosine",
             "hybrid_l2"} \cup ReadOps

InitSessions ==
    /\ documents = <<>>
    /\ chunks = <<>>
    /\ docSeq = 0
    /\ chunkSeq = 0
    /\ dbCall = NoDbCall
    /\ call = NoCall
    /\ ctx = NoCtx
    /\ issued = <<>>
    /\ batch = NoBatch
    /\ manager \in [Threads -> Managers]
    /\ locks = [m \in Managers |-> 0]
    /\ threads = [t \in Threads |-> Idle]

At(pc) == {t \in Threads : threads[t].pc = pc}

\* no other connection has an open write transaction
NoWriter(t) == \A u \in Threads \ {t} : threads[u].txn = <<>>

\* the result of a read method over the given tables
select(op, doc_id, docs, rows) ==
    CASE op = "get_all_chunks" ->
            SelectRows(rows, {rows[i].doc_id : i \in 1..Len(rows)})
      [] op = "get_document_chunks" -> SelectRows(rows, {doc_id})
      [] op = "get_documents" -> [i \in 1..Len(docs) |-> docs[Len(docs) + 1 - i]]

\* faulty variant: a connection in autocommit mode, whose every statement is
\* seen by the others at once
visible_uncommitted(committed, txn) == txn

\* the tables other connections read while a connection has written txn and
\* not committed
visible_to_others(committed, txn) == committed

\* the threads that have called op and not left it
Calling(op) == {t \in Threads : threads[t].op = op}

\* the chunks the sessions may still store: the bound less the chunks stored
\* and the chunks of the files being uploaded
Room ==
    LET SumTodo[S \in SUBSET Threads] ==
            IF S = {} THEN 0
            ELSE LET t == CHOOSE t \in S : TRUE
                 IN threads[t].todo + SumTodo[S \ {t}]
    IN MaxSessionChunks - chunkSeq - SumTodo[Threads]

\* the numbers of chunks process_file may have cut an uploaded file into (a
\* file without chunks is skipped, app.py lines 102-104)
FileChunks(op) == IF op = "add_document" THEN 1..Room ELSE {0}

\* where a thread may call a DatabaseManager method
CanCall(t, op) ==
    CASE op = "add_document" ->
            /\ threads[t].pc = "idle"
            /\ Len(issued) + Cardinality(Calling("add_document")) < MaxSessionDocs
      [] op = "add_chunk" -> threads[t].pc = "uploading" /\ threads[t].todo > 0
      [] op = "hybrid_l2" -> threads[t].pc = "hybrid_search"
      [] OTHER -> threads[t].pc = "idle"

\* a thread calls a DatabaseManager method and reaches its "with self.lock:";
\* an upload has cut its file into chunks before it calls add_document
Call ==
    \E t \in Threads, op \in StoreOps, doc_id \in SessionDocIds :
        /\ CanCall(t, op)
        /\ \E n \in FileChunks(op) :
              threads' = [threads EXCEPT
                  ![t].pc = "waiting", ![t].op = op,
                  ![t].doc_id = IF op \in {"delete_document", "get_document_chunks"}
                                THEN doc_id ELSE @,
                  ![t].todo = IF op = "add_document" THEN n ELSE @]
        /\ UNCHANGED <<storeVars, dbCall, call, ctx, issued, batch, manager, locks>>

\* "with self.lock:", entry: the thread takes the lock of its DatabaseManager
Acquire ==
    \E t \in At("waiting") :
        /\ locks[manager[t]] = 0
        /\ locks' = [locks EXCEPT ![manager[t]] = t]
        /\ threads' = [threads EXCEPT ![t].pc = threads[t].op]
        /\ UNCHANGED <<storeVars, dbCall, call, ctx, issued, batch, manager>>

\* "with self.lock:", exit
Release(t) == locks' = [locks EXCEPT ![manager[t]] = 0]

\* faulty variant: self.lock.acquire() ... self.lock.release() with no
\* try/finally, where an exception leaves the lock taken
lock_kept_after_raise(ls, m) == ls

\* the locks after an exception has left the "with self.lock:" block of an
\* instance
lock_after_raise(ls, m) == [ls EXCEPT ![m] = 0]

\* add_document of an upload (app.py line 107): INSERT, commit, return doc_id
InsertDocument ==
    \E t \in At("add_document") :
        /\ NoWriter(t)
        /\ add_document("f")
        /\ threads' = [threads EXCEPT ![t].pc = "uploading", ![t].op = "none",
                                      ![t].doc_id = issued'[Len(issued')]]
        /\ Release(t)
        /\ UNCHANGED <<dbCall, call, ctx, batch, manager>>

\* add_chunk of an upload (app.py line 115), with the doc_id add_document gave
InsertChunk ==
    \E t \in At("add_chunk") :
        /\ NoWriter(t)
        /\ add_chunk(threads[t].doc_id, "a", Embed("a"), "float32")
        /\ threads' = [threads EXCEPT ![t].pc = "uploading", ![t].op = "none",
                                      ![t].todo = @ - 1]
        /\ Release(t)
        /\ UNCHANGED <<dbCall, call, ctx, issued, batch, manager>>

\* the upload loop has stored its last chunk
FinishUpload ==
    \E t \in At("uploading") :
        /\ threads[t].todo = 0
        /\ threads' = [threads EXCEPT ![t] = Idle]
        /\ UNCHANGED <<storeVars, dbCall, call, ctx, issued, batch, manager, locks>>

\* delete_document, first statement: DELETE FROM chunks WHERE doc_id = ?
DeleteChunks ==
    \E t \in At("delete_document") :
        /\ NoWriter(t)
        /\ LET pre == [documents |-> documents, chunks |-> chunks]
               txn == [pre EXCEPT !.chunks = DeleteRows(chunks, threads[t].doc_id)]
               seenByOthers == visible_to_others(pre, txn)
           IN /\ threads' = [threads EXCEPT ![t].pc = "deleted_chunks",
                                            ![t].pre = pre, ![t].txn = txn]
              /\ documents' = seenByOthers.documents
              /\ chunks' = seenByOthers.chunks
        /\ UNCHANGED <<docSeq, chunkSeq, dbCall, call, ctx, issued, batch, manager, locks>>

\* delete_document, second statement: DELETE FROM documents WHERE doc_id = ?
DeleteDocumentRow ==
    \E t \in At("deleted_chunks") :
        /\ LET txn == [threads[t].txn EXCEPT
                          !.documents = DeleteRows(@, threads[t].doc_id)]
               seenByOthers == visible_to_others(
                                   [documents |-> documents, chunks |-> chunks], txn)
           IN /\ threads' = [threads EXCEPT ![t].pc = "deleted_document",
                                            ![t].txn = txn]
              /\ documents' = seenByOthers.documents
              /\ chunks' = seenByOthers.chunks
        /\ UNCHANGED <<docSeq, chunkSeq, dbCall, call, ctx, issued, batch, manager, locks>>

\* delete_document: conn.commit(), conn.close() and the end of "with self.lock"
Commit ==
    \E t \in At("deleted_document") :
        /\ documents' = threads[t].txn.documents
        /\ chunks' = threads[t].txn.chunks
        /\ threads' = [threads EXCEPT ![t] = Idle]
        /\ Release(t)
        /\ UNCHANGED <<docSeq, chunkSeq, dbCall, call, ctx, issued, batch, manager>>

\* the transactions other connections have open
OpenBy(t) == {u \in Threads \ {t} : threads[u].txn # <<>>}

\* a read method: its SELECT over the committed tables.  pre records the
\* tables as they were before the delete_document that is under way, if any
Select ==
    \E t \in Threads :
        /\ threads[t].pc \in ReadOps
        /\ threads' = [threads EXCEPT
              ![t].pc = "returned",
              ![t].seen = select(threads[t].pc, threads[t].doc_id, documents, chunks),
              ![t].pre = IF OpenBy(t) = {} THEN <<>>
                         ELSE threads[CHOOSE u \in OpenBy(t) : TRUE].pre]
        /\ Release(t)
        /\ UNCHANGED <<storeVars, dbCall, call, ctx, issued, batch, manager>>

\* hybrid_search: self.db.get_all_chunks() of retrieve_similar_chunks
HybridSelectCosine ==
    \E t \in At("hybrid_cosine") :
        /\ threads' = [threads EXCEPT
              ![t].pc = "hybrid_search", ![t].op = "none",
              ![t].rows1 = select("get_all_chunks", 0, documents, chunks)]
        /\ Release(t)
        /\ UNCHANGED <<storeVars, dbCall, call, ctx, issued, batch, manager>>

\* hybrid_search: self.db.get_all_chunks() of retrieve_by_l2_distance
HybridSelectL2 ==
    \E t \in At("hybrid_l2") :
        /\ threads' = [threads EXCEPT
              ![t].pc = "hybrid_combine",
              ![t].rows2 = select("get_all_chunks", 0, documents, chunks)]
        /\ Release(t)
        /\ UNCHANGED <<storeVars, dbCall, call, ctx, issued, batch, manager>>

\* the threads inside the "with self.lock:" block of a method
InUnitOfWork == {t \in Threads : locks[manager[t]] = t}

\* the unit of work of a thread raises.  The two get_all_chunks calls of
\* hybrid_search are made by retrievals that catch the exception and return [];
\* any other exception reaches the except branch of the session script, which
\* for an upload leaves the file as far as it was stored
RaiseInUnitOfWork ==
    \E t \in InUnitOfWork :
        /\ threads' = [threads EXCEPT ![t] =
              IF threads[t].pc = "hybrid_cosine"
              THEN [@ EXCEPT !.pc = "hybrid_search", !.op = "none", !.rows1 = <<>>,
                             !.seen = Append(@, "cosine")]
              ELSE IF threads[t].pc = "hybrid_l2"
              THEN [@ EXCEPT !.pc = "hybrid_combine", !.rows2 = <<>>,
                             !.seen = Append(@, "l2")]
              ELSE [@ EXCEPT !.pc = "failed", !.txn = <<>>, !.pre = <<>>]]
        /\ locks' = lock_after_raise(locks, manager[t])
        /\ UNCHANGED <<storeVars, dbCall, call, ctx, issued, batch, manager>>

\* the read, the hybrid_search or the except branch returns to the session script
ReturnToScript ==
    \E t \in At("returned") \cup At("hybrid_combine") \cup At("failed") :
        /\ threads' = [threads EXCEPT ![t] = Idle]
        /\ UNCHANGED <<storeVars, dbCall, call, ctx, issued, batch, manager, locks>>

NextSessions ==
    \/ Call
    \/ Acquire
    \/ InsertDocument
    \/ InsertChunk
    \/ FinishUpload
    \/ DeleteChunks
    \/ DeleteDocumentRow
    \/ Commit
    \/ Select
    \/ HybridSelectCosine
    \/ HybridSelectL2
    \/ RaiseInUnitOfWork
    \/ ReturnToScript

SpecSessions == InitSessions /\ [][NextSessions]_vars

\* a step of thread t that its code takes without waiting for another thread's
\* lock: statements of a unit of work and returns
Progress(t) ==
    /\ \/ InsertDocument
       \/ InsertChunk
       \/ FinishUpload
       \/ DeleteChunks
       \/ DeleteDocumentRow
       \/ Commit
       \/ Select
       \/ HybridSelectCosine
       \/ HybridSelectL2
       \/ ReturnToScript
    /\ threads'[t] # threads[t]

\* thread t takes the lock it waits for
TakesLock(t) == Acquire /\ threads'[t] # threads[t]

\* the threads that call one DatabaseManager, the case in which a thread
\* waits for a lock that another thread holds
InitSharedManager == InitSessions /\ \A t \in Threads : manager[t] = 1

\* fair scheduling: a thread that can run runs, and a thread that waits for a
\* lock that is free again and again gets it
FairSessions ==
    /\ InitSharedManager
    /\ [][NextSessions]_vars
    /\ \A t \in Threads : WF_vars(Progress(t)) /\ SF_vars(TakesLock(t))

(***************************************************************************)
(* add_chunk called with arrays of either element type, and the chunks     *)
(* read back.  The store holds one document, to which every chunk belongs. *)
(***************************************************************************)
CodecVectors == {Embed("a"), Embed("d"), Embed("n")}

InitCodec ==
    /\ documents = <<[doc_id |-> 1, file_name |-> "f"]>>
    /\ chunks = <<>>
    /\ docSeq = 1
    /\ chunkSeq = 0
    /\ dbCall = NoDbCall
    /\ call = NoCall
    /\ ctx = NoCtx
    /\ issued = <<1>>
    /\ batch = NoBatch
    /\ NoThreads

AddChunkArray ==
    /\ chunkSeq < MaxChunks
    /\ \E embedding \in CodecVectors, dtype \in Dtypes :
        /\ add_chunk(1, "a", embedding, dtype)
        /\ dbCall' = [NoDbCall EXCEPT !.op = "add_chunk", !.doc_id = 1,
                                      !.arg = embedding, !.existed = TRUE,
                                      !.stored = (chunks' # chunks)]
    /\ UNCHANGED <<call, ctx, issued, batch, concVars>>

NextCodec == AddChunkArray \/ GetAllChunks \/ GetDocumentChunks

SpecCodec == InitCodec /\ [][NextCodec]_vars

(***************************************************************************)
(* One get_embeddings_batch call of an EmbeddingManager whose model has    *)
(* dimension batch.dim.                                                    *)
(***************************************************************************)
BatchTexts == {"a", "zero"}

InitBatch ==
    /\ documents = <<>>
    /\ chunks = <<>>
    /\ docSeq = 0
    /\ chunkSeq = 0
    /\ dbCall = NoDbCall
    /\ call = NoCall
    /\ ctx = NoCtx
    /\ issued = <<>>
    /\ \E dim \in Dims : batch = [NoBatch EXCEPT !.dim = dim]
    /\ NoThreads

GetEmbeddingsBatch ==
    /\ ~batch.done
    /\ \E n \in 0..MaxBatch : \E texts \in [1..n -> BatchTexts], oks \in [1..n -> BOOLEAN] :
          batch' = [batch EXCEPT !.done = TRUE, !.texts = texts, !.oks = oks,
                                 !.ret = get_embeddings_batch(texts, oks, batch.dim)]
    /\ UNCHANGED <<storeVars, dbCall, call, ctx, issued, concVars>>

NextBatch == GetEmbeddingsBatch

SpecBatch == InitBatch /\ [][NextBatch]_vars

(***************************************************************************)
(* Properties.                                                             *)
(***************************************************************************)
RowOf(chunk_id) == CHOOSE r \in {chunks[i] : i \in 1..Len(chunks)} : r.chunk_id = chunk_id
StoredIds == {chunks[i].chunk_id : i \in 1..Len(chunks)}
StoredEmbedding(chunk_id) == frombuffer(RowOf(chunk_id).embedding)

\* the cosine score / L2 distance of a stored chunk against a query text
CosOf(query, chunk_id) == cosine_similarity(Embed(query), StoredEmbedding(chunk_id)).val
DistOf(query, chunk_id) == l2_distance(Embed(query), StoredEmbedding(chunk_id)).val

\* some stored embedding has another length than the query embedding
Mismatch(query) ==
    \E id \in StoredIds : Len(StoredEmbedding(id)) # Len(Embed(query))

\* the retrieval ran without a failing embedder, store read or scoring
Scored == call.fail = <<"none", "none">> /\ ~Mismatch(call.query)

\* C1: the result of retrieve_similar_chunks with top_k >= 0 holds only stored
\* chunks with their cosine score, each score >= similarity_threshold, in
\* non-increasing score order, and at most top_k of them.
C1_SimilarResultBounded ==
    (call.op = "similar" /\ call.top_k >= 0) =>
        /\ Len(call.result) <= call.top_k
        /\ \A i \in 1..Len(call.result) :
              /\ call.result[i][1] \in StoredIds
              /\ call.result[i][3] = CosOf(call.query, call.result[i][1])
              /\ call.result[i][3] >= call.thr
        /\ \A i, j \in 1..Len(call.result) :
              i < j => call.result[i][3] >= call.result[j][3]

\* three stored chunks, one below the threshold 0.8, top_k = 2 filled with two
\* different scores
C1_Witness ==
    /\ call.op = "similar" /\ call.top_k = 2 /\ call.thr = 800
    /\ Len(chunks) = 3 /\ Len(call.result) = 2
    /\ call.result[1][3] > call.result[2][3]
    /\ \E id \in StoredIds : CosOf(call.query, id) < call.thr

\* C2: the result of retrieve_by_l2_distance with top_k >= 0 holds only stored
\* chunks with their L2 distance, each distance <= max_distance, in
\* non-decreasing distance order, and at most top_k of them.
C2_DistanceResultBounded ==
    (call.op = "l2" /\ call.top_k >= 0) =>
        /\ Len(call.result) <= call.top_k
        /\ \A i \in 1..Len(call.result) :
              /\ call.result[i][1] \in StoredIds
              /\ call.result[i][3] = DistOf(call.query, call.result[i][1])
              /\ call.result[i][3] <= call.thr
        /\ \A i, j \in 1..Len(call.result) :
              i < j => call.result[i][3] <= call.result[j][3]

\* three stored chunks, one farther than max_distance 1.0, top_k = 2 filled
\* with two different distances
C2_Witness ==
    /\ call.op = "l2" /\ call.top_k = 2 /\ call.thr = 1000
    /\ Len(chunks) = 3 /\ Len(call.result) = 2
    /\ call.result[1][3] < call.result[2][3]
    /\ \E id \in StoredIds : DistOf(call.query, id) > call.thr

\* C3: a retrieval called with top_k <= 0 returns the empty sequence.
C3_NonPositiveTopKEmpty ==
    (call.op \in {"similar", "l2", "hybrid"} /\ call.top_k <= 0) => call.result = <<>>

\* the ids of the stored chunks whose cosine score reaches the threshold
Qualifying(query, thr) == {id \in StoredIds : CosOf(query, id) >= thr}

\* C4: when scoring succeeds and top_k >= 0, retrieve_similar_chunks returns
\* min(top_k, number of qualifying chunks) distinct chunks, all qualifying (a
\* score equal to the threshold qualifies), in non-increasing score order, and
\* no qualifying chunk left out has a higher score than a returned one.
C4_SimilarTopKOfQualifying ==
    (call.op = "similar" /\ call.top_k >= 0 /\ Scored) =>
        LET got == Ids(call.result)
            qual == Qualifying(call.query, call.thr)
        IN /\ got \subseteq qual
           /\ Cardinality(got) = Len(call.result)
           /\ Len(call.result) = Min(call.top_k, Cardinality(qual))
           /\ \A i \in 1..Len(call.result) :
                 call.result[i][3] = CosOf(call.query, call.result[i][1])
           /\ \A i, j \in 1..Len(call.result) :
                 i < j => call.result[i][3] >= call.result[j][3]
           /\ \A x \in qual \ got, y \in got :
                 CosOf(call.query, y) >= CosOf(call.query, x)

\* the scenario of the specification: scores 1.0, -0.28 and 0.8 stored in that
\* order, top_k = 2, threshold 0.5: the first chunk, then the third
C4_Witness ==
    /\ call.op = "similar" /\ call.query = "q" /\ call.top_k = 2 /\ call.thr = 500
    /\ Len(chunks) = 3
    /\ <<chunks[1].text, chunks[2].text, chunks[3].text>> = <<"a", "c", "b">>
    /\ call.result = << <<1, "a", 1000>>, <<3, "b", 800>> >>

\* a retrieval that met no embedder or store failure but a stored embedding of
\* another length than the query embedding
MismatchCall ==
    /\ call.op \in {"similar", "l2"}
    /\ call.fail = <<"none", "none">>
    /\ Mismatch(call.query)

C6_FailureGivesEmpty ==
    [][(call.op = "none" /\ call'.op \in {"similar", "l2"} /\ call'.fail[1] # "none")
          => (call'.result = <<>> /\ ~call'.raised /\ storeVars' = storeVars)]_vars

\* the embedder failed for a query against a store of three chunks
C6_Witness ==
    /\ call.op \in {"similar", "l2"} /\ call.fail[1] = "embed"
    /\ Len(chunks) = 3 /\ call.top_k = 2
    /\ call.result = <<>> /\ ~call.raised

\* C7: a hybrid_search in which an embedder call or a store read of either
\* inner retrieval fails returns the empty sequence.
C7_HybridFailureGivesEmpty ==
    (call.op = "hybrid" /\ call.fail # <<"none", "none">>) => call.result = <<>>

\* C8: after delete_document(d), get_document_chunks(d) is empty, no chunk of
\* get_all_chunks() belongs to d, and get_documents() does not list d.
C8_DeleteRemovesAll ==
    dbCall.op = "delete_document" =>
        /\ get_document_chunks(dbCall.doc_id) = <<>>
        /\ \A i \in 1..Len(get_all_chunks) :
              RowOf(get_all_chunks[i][1]).doc_id # dbCall.doc_id
        /\ \A i \in 1..Len(get_documents) :
              get_documents[i].doc_id # dbCall.doc_id

\* a document that had two chunks was deleted while another document's chunk stays
C8_Witness ==
    /\ dbCall.op = "delete_document" /\ dbCall.existed
    /\ chunkSeq = 3 /\ Len(chunks) = 1
    /\ Len(documents) = 1

\* C9: add_chunk with a doc_id that is not in the documents table raises and
\* stores no chunk row.
C9_AddChunkChecksDocument ==
    (dbCall.op = "add_chunk" /\ ~dbCall.existed) => (dbCall.raised /\ ~dbCall.stored)

\* C10: the string build_context_from_chunks returns is never longer than
\* max_context_length, separators included.
C10_ContextWithinMaxLength ==
    ctx.done => Len(ctx.ret) <= ctx.max_context_length

\* the candidate set of a hybrid_search call that met no failure
Candidates(query, top_k) ==
    all_chunk_ids(hybrid_cosine_results(query, top_k, TRUE, TRUE),
                  hybrid_l2_results(query, top_k, TRUE, TRUE))

\* retrieve_similar_chunks with threshold 0 over the stored chunks of a set only
SimilarRestricted(query, top_k, ids) ==
    LET rows == SelectSeq(get_all_chunks, LAMBDA r : r[1] \in ids)
        similarities == [i \in 1..Len(rows) |->
                            <<rows[i][1], rows[i][2], CosOf(query, rows[i][1])>>]
    IN Slice(filter_similarity(list_sort(similarities, TRUE), 0), top_k)

IdSeq(results) == [i \in 1..Len(results) |-> results[i][1]]

\* a hybrid_search with cosine_weight 1 and l2_weight 0, top_k >= 0, no failure
CosineOnlyHybrid ==
    /\ call.op = "hybrid" /\ call.w = <<1000, 0>> /\ call.top_k >= 0
    /\ Scored

\* C11 as stated: hybrid_search with weights (1, 0) returns the chunk ids of
\* retrieve_similar_chunks with threshold 0 restricted to the candidate set,
\* in the same order, negative scores and ties included.
C11_HybridRanksAsSimilar ==
    CosineOnlyHybrid =>
        IdSeq(call.result)
            = IdSeq(SimilarRestricted(call.query, call.top_k,
                                      Candidates(call.query, call.top_k)))

\* no candidate has a negative cosine score and no two have the same one
DistinctNonNegative(query, ids) ==
    /\ \A x \in ids : CosOf(query, x) >= 0
    /\ \A x, y \in ids : x # y => CosOf(query, x) # CosOf(query, y)

\* C11 amended: the two rankings agree when no candidate has a negative
\* cosine score and no two candidates have the same cosine score.
C11_HybridRanksAsSimilarIfDistinct ==
    (CosineOnlyHybrid
        /\ DistinctNonNegative(call.query, Candidates(call.query, call.top_k)))
    => IdSeq(call.result)
         = IdSeq(SimilarRestricted(call.query, call.top_k,
                                   Candidates(call.query, call.top_k)))

\* scores 0.6, 0.8, 1.0 stored in that order: the third chunk, then the second
C11_Witness ==
    /\ CosineOnlyHybrid /\ call.query = "q" /\ call.top_k = 2
    /\ Len(chunks) = 3
    /\ <<chunks[1].text, chunks[2].text, chunks[3].text>> = <<"e", "b", "a">>
    /\ IdSeq(call.result) = <<3, 2>>

\* C12: the ids add_document returns are strictly increasing, so none is
\* returned twice, also after the document with the highest id was deleted.
C12_DocumentIdsIncrease ==
    \A i, j \in 1..Len(issued) : i < j => issued[i] < issued[j]

\* a document is created after the one with the highest id was deleted
C12_Witness ==
    /\ Len(issued) = 2
    /\ dbCall.op = "add_document"
    /\ issued[1] \notin DocIds
    /\ issued[2] \in DocIds

\* C13, the part that fails: in the list get_embeddings_batch returns, the
\* vector of an item whose embedding failed differs from the vector of every
\* item that was embedded, so the caller can tell them apart.
C13_FailedItemDistinguishable ==
    batch.done =>
        \A i, j \in 1..Len(batch.ret) :
            (~batch.oks[i] /\ batch.oks[j]) => batch.ret[i] # batch.ret[j]

\* what get_all_chunks returns as the embedding of a chunk
ReadBack(chunk_id) ==
    LET rows == get_all_chunks
    IN rows[CHOOSE i \in 1..Len(rows) : rows[i][1] = chunk_id][3]

\* C14: whatever the element type of the array add_chunk was given, the
\* embedding get_all_chunks returns for the new chunk is that array, element
\* for element and of the same length.
C14_RoundTrip ==
    (dbCall.op = "add_chunk" /\ dbCall.stored) => ReadBack(chunkSeq) = dbCall.arg

\* C15: a retrieval of any of the three kinds over an empty store returns the
\* empty sequence and raises nothing, whether the embedder answers or fails.
C15_EmptyStoreGivesEmpty ==
    (chunks = <<>> /\ call.op \in {"similar", "l2", "hybrid"})
        => (call.result = <<>> /\ ~call.raised)

\* a hybrid_search over the empty store whose first embedder call failed and
\* whose second was answered
C15_Witness ==
    /\ chunks = <<>>
    /\ call.op = "hybrid" /\ call.fail = <<"embed", "none">> /\ call.top_k = 2
    /\ call.result = <<>> /\ ~call.raised

\* C20: every stored chunk embedding has the output dimension of the
\* embedder, also a chunk for which the embedder failed and the fallback
\* vector of get_embeddings_batch was stored.
C20_SameDimension ==
    \A i \in 1..Len(chunks) : Len(frombuffer(chunks[i].embedding)) = EmbedDim

\* C16: under every interleaving of the sessions' uploads and deletions, the
\* doc_id of every stored chunk is the id of a stored document.
C16_ChunksHaveDocument ==
    \A i \in 1..Len(chunks) : chunks[i].doc_id \in DocIds

\* the threads inside "with self.lock" of a DatabaseManager method
Inside == {t \in Threads : \E m \in Managers : locks[m] = t}

\* C17: at most one thread of the process is inside the unit of work of a
\* DatabaseManager method, whichever instances the threads call.
C17_OneInsideAtATime == Cardinality(Inside) <= 1

Deleting == At("deleted_chunks") \cup At("deleted_document")

\* C18: while a delete_document has run some of its statements and not
\* committed, the tables a reader reads are the tables from before the
\* deletion, and a read method that ran meanwhile returned what it returns
\* on those tables: all chunks of the document and its row.
C18_ReadersSeeNoPartialDelete ==
    /\ \A t \in Deleting :
          [documents |-> documents, chunks |-> chunks] = threads[t].pre
    /\ \A u \in At("returned") :
          threads[u].pre # <<>> =>
              threads[u].seen = select(threads[u].op, threads[u].doc_id,
                                       threads[u].pre.documents, threads[u].pre.chunks)

\* a session read both chunks of a document while another session had
\* deleted them and the document row and had not committed
C18_Witness ==
    \E t \in At("deleted_document"), u \in At("returned") :
        /\ threads[t].txn.chunks = <<>> /\ threads[t].txn.documents = <<>>
        /\ threads[u].op = "get_document_chunks"
        /\ threads[u].doc_id = threads[t].doc_id
        /\ threads[u].pre # <<>>
        /\ Len(threads[u].seen) = 2

\* C19: the two row lists one hybrid_search call scores, for the cosine
\* scores and for the L2 distances, are the same store state (when both
\* get_all_chunks calls returned).
C19_HybridOneSnapshot ==
    \A t \in At("hybrid_combine") :
        threads[t].seen = <<>> => threads[t].rows1 = threads[t].rows2

\* the two candidate lists of the hybrid_search call recorded in call
CallCosine ==
    hybrid_cosine_results(call.query, call.top_k,
                          call.fail[1] # "embed", call.fail[1] # "store")
CallL2 ==
    hybrid_l2_results(call.query, call.top_k,
                      call.fail[2] # "embed", call.fail[2] # "store")

\* C21: every entry of a hybrid_search result is an id of the union of the two
\* candidate sets with combined_score = cosine_weight * c + l2_weight *
\* max(0, 1 - d / 2), c its cosine score if it is a cosine candidate and 0
\* otherwise, the l2 term 0 if it is no distance candidate; no id is listed
\* twice, the scores do not increase, and for top_k >= 0 the result holds
\* min(top_k, size of the union) entries.
C21_HybridScores ==
    call.op = "hybrid" =>
        \A cos \in {Ids(CallCosine)}, l2 \in {Ids(CallL2)}, n \in {Len(call.result)} :
           /\ \A i \in 1..n :
                LET id == call.result[i][1]
                    c == IF id \in cos THEN CosOf(call.query, id) ELSE 0
                    term == IF id \in l2
                            THEN Max(0, ONE - Div(DistOf(call.query, id), 2 * ONE))
                            ELSE 0
                IN /\ id \in cos \cup l2
                   /\ call.result[i][3] = Mul(call.w[1], c) + Mul(call.w[2], term)
           /\ \A i, j \in 1..n :
                i < j => /\ call.result[i][1] # call.result[j][1]
                         /\ call.result[i][3] >= call.result[j][3]
           /\ call.top_k >= 0 => n = Min(call.top_k, Cardinality(cos \cup l2))

\* scores -0.28 and 0.8 stored in that order: the first chunk is a distance
\* candidate only and gets 0.7 * 0 + 0.3 * (1 - 1.6 / 2)
C21_Witness ==
    /\ call.op = "hybrid" /\ call.query = "q" /\ call.top_k = 2
    /\ call.w = <<700, 300>> /\ call.fail = <<"none", "none">>
    /\ Len(chunks) = 2 /\ <<chunks[1].text, chunks[2].text>> = <<"c", "b">>
    /\ Ids(CallCosine) = {2} /\ Ids(CallL2) = {1, 2}
    /\ call.result = << <<2, "b", 770>>, <<1, "c", 60>> >>

\* the renderings of the first k chunks handed to build_context_from_chunks
Rendered(k) ==
    [i \in 1..k |-> chunk_with_score(ctx.chunks[i][2], ctx.chunks[i][3])]

\* the first k chunks, rendered and joined by a blank line, fit max_context_length
PrefixFits(k) == Len(Join("\n\n", Rendered(k))) <= ctx.max_context_length

\* C22: build_context_from_chunks returns the renderings, joined by a blank
\* line and in input order, of the longest prefix of its input that fits
\* max_context_length: the first chunk that would overflow and all chunks
\* after it are dropped, and the result is empty when the first chunk
\* overflows or the input is empty.
C22_GreedyPrefix ==
    ctx.done =>
        LET k == CHOOSE k \in 0..Len(ctx.chunks) :
                    /\ PrefixFits(k)
                    /\ k < Len(ctx.chunks) => ~PrefixFits(k + 1)
        IN ctx.ret = Join("\n\n", Rendered(k))

\* the place of a chunk in the list get_all_chunks returns
PlaceInStore(chunk_id) ==
    CHOOSE k \in 1..Len(get_all_chunks) : get_all_chunks[k][1] = chunk_id

\* C23: two chunks with equal score stand in the result of
\* retrieve_similar_chunks and of retrieve_by_l2_distance in the order in which
\* get_all_chunks returned them, also under the descending cosine sort.
C23_TiesKeepStoreOrder ==
    call.op \in {"similar", "l2"} =>
        \A i, j \in 1..Len(call.result) :
            (i < j /\ call.result[i][3] = call.result[j][3])
                => PlaceInStore(call.result[i][1]) < PlaceInStore(call.result[j][1])

\* scores 1.0, 0.8 and 1.0 stored in that order: the first chunk, then the third
C23_Witness ==
    /\ call.op = "similar" /\ call.query = "q" /\ call.top_k = 2 /\ call.thr = 0
    /\ Len(chunks) = 3
    /\ <<chunks[1].text, chunks[2].text, chunks[3].text>> = <<"a", "b", "d">>
    /\ call.result = << <<1, "a", 1000>>, <<3, "d", 1000>> >>

\* C24: a document row is in the store only when all chunks of its file are
\* stored: no thread has a document in the store while chunks of the file it
\* uploads, or failed to upload, are still to be stored.
C24_NoPartialDocument ==
    \A t \in Threads : threads[t].todo > 0 => threads[t].doc_id \notin DocIds

\* the pcs at which a thread is inside "with self.lock:"
LockedPcs == StoreOps \cup {"deleted_chunks", "deleted_document"}

====
